---- MODULE Spec2Model ----
(***************************************************************************)
(* Study-plan generation pipeline of app/services/enhanced_study_plan.py   *)
(* and app/utils/study_plan_validator.py: the generate / validate /        *)
(* critique / revise loop (_generate_plan_with_critique), the checklist    *)
(* parser and validator it calls, and the caller that assembles and        *)
(* persists the plan (generate_enhanced_study_plan).                       *)
(*                                                                         *)
(* Strings.  A Python Optional[str] is a sequence of length 0 (None) or 1. *)
(* A checklist text is a record [lines, braces]; a critique verdict or a   *)
(* validator message is a record [text, braces] whose text is the sequence *)
(* of its lines ("" is <<>>, "OK" is <<"OK">>).  The braces field says     *)
(* which curly-brace tokens the string contains, because the revision      *)
(* prompt re-embeds generated text and feedback in an f-string prompt      *)
(* template (ChatPromptTemplate.from_messages): "none", "{x}" (a           *)
(* replacement field naming no prompt input) or "{{x}}" (escaped braces).  *)
(***************************************************************************)
EXTENDS Integers, Sequences, FiniteSets, TLC

(* ---------------------------- bounds ----------------------------------- *)
MaxRetriesBound == 2
MaxLines == 2
MaxRemovals == 2
MaxDocs == 2
MaxKeywords == 2
MaxGoalLen == 4
MaxLaterItems == 1
MaxRawLines == 2
MaxUploads == 3
MaxSwitches == 2

(* ------------------------ program constants ---------------------------- *)
ItemCap == 15
MaxEffort == 5
MinEffort == 1
GoalCount == 3
PerItemMinutes == 30

ValidTags == {"Core", "Practice", "Overview", "Optional"}

None == <<>>
Some(x) == <<x>>

(* ------------------ study_plan_validator.py: parser -------------------- *)
(* One line of a checklist text: the fields the item pattern captures.     *)
(* A prompt is None (no continuation line) or Some(text).                  *)
Line(n, tag, stars, prompt) ==
    [number |-> n, label |-> <<"label", n>>, objective |-> <<"objective", n>>,
     tag |-> tag, stars |-> stars, prompt |-> prompt]

(* The pattern matches a line only with one of the four tags and >= 1 star *)
LineMatches(l) == l.tag \in ValidTags /\ l.stars >= 1

ItemOf(l) ==
    [number |-> l.number, label |-> l.label, objective |-> l.objective,
     tag |-> l.tag, effort |-> l.stars, prompt |-> l.prompt]

RECURSIVE ParseLines(_)
ParseLines(ls) ==
    IF ls = <<>> THEN <<>>
    ELSE IF LineMatches(Head(ls))
         THEN <<ItemOf(Head(ls))>> \o ParseLines(Tail(ls))
         ELSE ParseLines(Tail(ls))

parse_checklist_text(text) == ParseLines(text.lines)

(* ----------------- study_plan_validator.py: validator ------------------ *)
Msg(s) == [text |-> <<s>>, braces |-> "none"]

MsgParse    == Msg("Failed to parse checklist format")
MsgCount    == Msg("Checklist should have at most 15 items")
MsgPractice == Msg("Checklist must include at least one Practice item")
MsgPrompt   == Msg("Checklist must include at least one reflection prompt")
MsgEffort   == "Effort must be between 1 and 5 stars"
MsgTag      == "Tag must be one of {'Core', 'Practice', 'Overview', 'Optional'}"

tag_must_be_valid(v) == v \in ValidTags
effort_must_be_valid(v) == MinEffort <= v /\ v <= MaxEffort

(* Truthiness of item.prompt: set and not the empty string *)
PromptTruthy(p) == p # None /\ p[1] # ""

(* The field validators of every item run first; pydantic reports one      *)
(* error line per failing field, in item order (tag before effort).        *)
ItemErrorsFirstOnly(items) ==
    IF \A i \in 1..Len(items) : effort_must_be_valid(items[i].effort)
    THEN <<>> ELSE <<MsgEffort>>
RECURSIVE ItemErrors(_)
ItemErrors(items) ==
    IF items = <<>> THEN <<>>
    ELSE (IF tag_must_be_valid(Head(items).tag) THEN <<>> ELSE <<MsgTag>>)
         \o (IF effort_must_be_valid(Head(items).effort) THEN <<>> ELSE <<MsgEffort>>)
         \o ItemErrors(Tail(items))

(* Checklist.validate_items: runs only when every item validated.          *)
(* Result is None when the items pass, else Some(message).                 *)
TooManyInclusive(items) == Len(items) >= ItemCap
TooMany(items) == Len(items) > ItemCap

validate_items_no_practice(items) ==
    IF TooMany(items) THEN Some(MsgCount)
    ELSE IF ~ \E i \in 1..Len(items) : PromptTruthy(items[i].prompt) THEN Some(MsgPrompt)
    ELSE None
validate_items(items) ==
    IF TooMany(items) THEN Some(MsgCount)
    ELSE IF ~ \E i \in 1..Len(items) : items[i].tag = "Practice" THEN Some(MsgPractice)
    ELSE IF ~ \E i \in 1..Len(items) : PromptTruthy(items[i].prompt) THEN Some(MsgPrompt)
    ELSE None

Checklist(items) ==
    IF ItemErrors(items) # <<>>
    THEN Some([text |-> ItemErrors(items),
               braces |-> IF \E i \in 1..Len(items) : ~ tag_must_be_valid(items[i].tag)
                          THEN "{x}" ELSE "none"])
    ELSE validate_items(items)

(* validate_checklist returns (is_valid, error) *)
validate_checklist(text) ==
    LET items == parse_checklist_text(text) IN
    IF items = <<>> THEN [is_valid |-> FALSE, error |-> Some(MsgParse)]
    ELSE IF Checklist(items) = None THEN [is_valid |-> TRUE, error |-> None]
    ELSE [is_valid |-> FALSE, error |-> Checklist(items)]

(* ------------------- prompt template (f-string) ------------------------ *)
(* ChatPromptTemplate.from_messages treats every message string as an      *)
(* f-string template: "{{" and "}}" are rendered as single braces, a       *)
(* replacement field that is not one of the prompt inputs raises.          *)
TemplateFormats(s) == s.braces # "{x}"
RenderBraces(b) == IF b = "{{x}}" THEN "{x}" ELSE b
Render(s) == [s EXCEPT !.braces = RenderBraces(s.braces)]

(* str(None) inside the f-string of the revision message *)
NoneText == Msg("None")

(* --------------------- enhanced_study_plan.py -------------------------- *)
(* _create_structured_plan *)
FirstNAll(seq, n) == seq
FirstN(seq, n) == SubSeq(seq, 1, IF Len(seq) < n THEN Len(seq) ELSE n)

(* line 325: "estimated_minutes": len(items) * 30 *)
EstimatedMinutesFlat(n) == PerItemMinutes
EstimatedMinutes(n) == n * PerItemMinutes

(* lines 304-334: the plan built from the parsed items *)
PlanOf(items) ==
    LET objectives == [i \in 1..Len(items) |-> items[i].objective]
        activities == [i \in 1..Len(items) |->
                          <<items[i].number, items[i].label, items[i].objective>>]
        breakdown == [week |-> 1,
                      title |-> "Medical Document Study Week",
                      estimated_minutes |-> EstimatedMinutes(Len(items)),
                      learning_objectives |-> objectives,
                      resources |-> <<>>,
                      activities |-> activities,
                      assessment |-> "Review all items and answer reflection prompts",
                      checklist |-> items]
    IN [goals |-> FirstN(objectives, GoalCount),
        duration_weeks |-> 1,
        weekly_breakdown |-> IF items # <<>> THEN <<breakdown>> ELSE <<>>]

_create_structured_plan(checklist_text) == PlanOf(parse_checklist_text(checklist_text))

(* ---------------- characters and strings of the front half ------------- *)
(* A goal, a keyword, a segment text and the outline are sequences of      *)
(* one-character strings.                                                  *)
Whitespace == {" ", "\n", "\t"}
UpperCase == <<"A","B","C","D","E","F","G","H","I","J","K","L","M",
               "N","O","P","Q","R","S","T","U","V","W","X","Y","Z">>
LowerCase == <<"a","b","c","d","e","f","g","h","i","j","k","l","m",
               "n","o","p","q","r","s","t","u","v","w","x","y","z">>

(* str.lower() *)
UpperSet == {UpperCase[i] : i \in 1..Len(UpperCase)}
LowerChar(c) ==
    IF c \in UpperSet
    THEN LowerCase[CHOOSE i \in 1..Len(UpperCase) : UpperCase[i] = c]
    ELSE c
Lower(s) == [i \in 1..Len(s) |-> LowerChar(s[i])]

(* needle in hay *)
Contains(hay, needle) ==
    \E i \in 0..(Len(hay) - Len(needle)) :
        \A j \in 1..Len(needle) : hay[i + j] = needle[j]

(* str.split(): the maximal runs of non-whitespace characters *)
RECURSIVE SplitFrom(_, _, _)
SplitFrom(s, i, cur) ==
    IF i > Len(s) THEN (IF cur = <<>> THEN <<>> ELSE <<cur>>)
    ELSE IF s[i] \in Whitespace
         THEN (IF cur = <<>> THEN <<>> ELSE <<cur>>) \o SplitFrom(s, i + 1, <<>>)
         ELSE SplitFrom(s, i + 1, Append(cur, s[i]))
Split(s) == SplitFrom(s, 1, <<>>)

(* str.strip(): first and last non-whitespace position, by bisection *)
RECURSIVE FirstNonWs(_, _, _)
FirstNonWs(s, lo, hi) ==
    IF lo > hi THEN lo
    ELSE IF lo = hi THEN (IF s[lo] \in Whitespace THEN lo + 1 ELSE lo)
    ELSE LET mid == (lo + hi) \div 2 IN
         IF \A i \in lo..mid : s[i] \in Whitespace
         THEN FirstNonWs(s, mid + 1, hi)
         ELSE FirstNonWs(s, lo, mid)
RECURSIVE LastNonWs(_, _, _)
LastNonWs(s, lo, hi) ==
    IF lo > hi THEN hi
    ELSE IF lo = hi THEN (IF s[lo] \in Whitespace THEN lo - 1 ELSE lo)
    ELSE LET mid == (lo + hi + 1) \div 2 IN
         IF \A i \in mid..hi : s[i] \in Whitespace
         THEN LastNonWs(s, lo, mid - 1)
         ELSE LastNonWs(s, mid, hi)
Strip(s) ==
    LET first == FirstNonWs(s, 1, Len(s)) IN
    IF first > Len(s) THEN <<>> ELSE SubSeq(s, first, LastNonWs(s, first, Len(s)))

(* ------------------- document_parser.py: goal filter ------------------- *)
(* A segment (LangchainDocument): its text and its page metadata *)
Doc(text, page) == [page_content |-> text, page |-> page]

StopWords ==
    {<<"t","h","e">>,
     <<"a">>,
     <<"a","n">>,
     <<"a","n","d">>,
     <<"o","r">>,
     <<"b","u","t">>,
     <<"i","n">>,
     <<"o","n">>,
     <<"a","t">>,
     <<"t","o">>,
     <<"f","o","r">>,
     <<"w","i","t","h">>,
     <<"a","b","o","u","t">>}
Separators == {",", ".", ";"}
ShortWordLen == 2

IsKeywordNoStopWords(word) == Len(word) > ShortWordLen
IsKeyword(word) == word \notin StopWords /\ Len(word) > ShortWordLen

extract_goal_keywords(goal_str) ==
    LET lowered == Lower(goal_str)
        replaced == [i \in 1..Len(lowered) |->
                        IF lowered[i] \in Separators THEN " " ELSE lowered[i]]
        words == Split(replaced)
    IN SelectSeq(words, IsKeyword)

(* kw.lower() for kw in goal_keywords *)
LowerKeywordAsIs(kw) == kw
LowerKeyword(kw) == Lower(kw)

(* "Return all docs if filtering removed everything (fallback)" *)
FilterFallbackNone(filtered, all_docs) == filtered
FilterFallback(filtered, all_docs) ==
    IF filtered = <<>> /\ all_docs # <<>> THEN all_docs ELSE filtered

filter_documents_by_goal(all_docs, goal_keywords) ==
    IF goal_keywords = <<>> THEN all_docs
    ELSE LET lowercase_keywords ==
                 [i \in 1..Len(goal_keywords) |-> LowerKeyword(goal_keywords[i])]
             Keep(doc) == \E i \in 1..Len(lowercase_keywords) :
                              Contains(Lower(doc.page_content), lowercase_keywords[i])
         IN FilterFallback(SelectSeq(all_docs, Keep), all_docs)

(* ------------- enhanced_study_plan.py: outline of the document --------- *)
MaxChars == 12000
MinOutlineChars == 20

TruncationNotice ==
    <<"\n","\n","[","C","o","n","t","e","n","t"," ","t","r","u","n","c","a",
      "t","e","d"," ","d","u","e"," ","t","o"," ","l","e","n","g","t","h",
      ".",".",".","]">>
Placeholder ==
    <<"N","o"," ","d","o","c","u","m","e","n","t"," ","c","o","n","t","e",
      "n","t"," ","w","a","s"," ","s","u","c","c","e","s","s","f","u","l",
      "l","y"," ","e","x","t","r","a","c","t","e","d","."," ","T","h","i",
      "s"," ","d","o","c","u","m","e","n","t"," ","m","a","y"," ","c","o",
      "n","t","a","i","n"," ","p","r","i","m","a","r","i","l","y"," ","i",
      "m","a","g","e","s"," ","o","r"," ","n","o","n","-","t","e","x","t",
      "u","a","l"," ","c","o","n","t","e","n","t",".">>

(* "\n\n".join(doc.page_content for doc in docs) *)
RECURSIVE JoinDocs(_)
JoinDocs(ds) ==
    IF ds = <<>> THEN <<>>
    ELSE IF Len(ds) = 1 THEN ds[1].page_content
    ELSE ds[1].page_content \o <<"\n", "\n">> \o JoinDocs(Tail(ds))

ExceedsCeilingInclusive(n) == n >= MaxChars
ExceedsCeiling(n) == n > MaxChars

_create_document_outline(ds) ==
    LET all_content == JoinDocs(ds) IN
    IF ExceedsCeiling(Len(all_content))
    THEN SubSeq(all_content, 1, MaxChars) \o TruncationNotice
    ELSE all_content

(* lines 175-177: the outline the prompt is built from *)
TooShortEmptyOnly(o) == o = <<>>
TooShort(o) == o = <<>> \/ Len(Strip(o)) < MinOutlineChars
PromptOutline(o) == IF TooShort(o) THEN Placeholder ELSE o

(* ------- study_plan_validator.py: the item pattern, by character ------- *)
(* A raw text is a sequence of characters; the three glyphs outside ASCII  *)
(* are written by name.                                                    *)
Star == "STAR"
EmDash == "EMDASH"
Arrow == "ARROW"
Digits == {"0", "1", "2", "3", "4", "5", "6", "7", "8", "9"}
DigitValue ==
    [c \in Digits |->
        CASE c = "0" -> 0 [] c = "1" -> 1 [] c = "2" -> 2 [] c = "3" -> 3
          [] c = "4" -> 4 [] c = "5" -> 5 [] c = "6" -> 6 [] c = "7" -> 7
          [] c = "8" -> 8 [] c = "9" -> 9]
TagWord ==
    [t \in ValidTags |->
        CASE t = "Core" -> <<"C","o","r","e">>
          [] t = "Practice" -> <<"P","r","a","c","t","i","c","e">>
          [] t = "Overview" -> <<"O","v","e","r","v","i","e","w">>
          [] t = "Optional" -> <<"O","p","t","i","o","n","a","l">>]
PromptWord == <<"P","r","o","m","p","t",":">>

(* int(str): CPython refuses a decimal string of more than 4300 digits     *)
(* (sys.int_info.default_max_str_digits) with a ValueError                 *)
IntMaxStrDigits == 4300
IntRaises(ds) == Len(ds) > IntMaxStrDigits
RECURSIVE IntOf(_)
IntOf(ds) ==
    IF ds = <<>> THEN 0
    ELSE 10 * IntOf(SubSeq(ds, 1, Len(ds) - 1)) + DigitValue[ds[Len(ds)]]

(* last position of the longest run of characters of S that starts at p    *)
(* (p - 1 when there is none): a greedy "S+" or "S*"                       *)
RunEnd(s, p, S) ==
    LET stops == {i \in p..Len(s) : s[i] \notin S} IN
    IF p > Len(s) THEN p - 1
    ELSE IF stops = {} THEN Len(s)
    ELSE (CHOOSE i \in stops : \A j \in stops : i <= j) - 1
(* first position at or after p that holds c, Len(s) + 1 when none *)
Find(s, p, c) ==
    LET hits == {i \in p..Len(s) : s[i] = c} IN
    IF hits = {} THEN Len(s) + 1
    ELSE CHOOSE i \in hits : \A j \in hits : i <= j
LiteralAt(s, p, lit) ==
    /\ p + Len(lit) - 1 <= Len(s)
    /\ \A k \in 1..Len(lit) : s[p + k - 1] = lit[k]

(* "(?:\s*↳\s*Prompt:\s*([^\n]+))?" tried after the stars that end at e:   *)
(* the group's text and the end of the match, or no group                  *)
PromptGroup(s, e, a, w, q, r) ==
    LET last == IF r + 1 <= Len(s) THEN r + 1 ELSE r
        starts == {j \in q..last : s[j] # "\n"}
        from == CHOOSE j \in starts : \A k \in starts : k <= j
        to == RunEnd(s, from, {s[k] : k \in from..Len(s)} \ {"\n"})
    IN IF a <= Len(s) /\ s[a] = Arrow /\ LiteralAt(s, w, PromptWord) /\ starts # {}
       THEN [found |-> TRUE, group |-> SubSeq(s, from, to), end |-> to]
       ELSE [found |-> FALSE, group |-> <<>>, end |-> e]
PromptAt(s, e) ==
    LET a == RunEnd(s, e + 1, Whitespace) + 1
        w == RunEnd(s, a + 1, Whitespace) + 1
        q == w + Len(PromptWord)
    IN PromptGroup(s, e, a, w, q, RunEnd(s, q, Whitespace))

(* "\[(Core|Practice|Overview|Optional)\]" at b *)
TagsAt(s, b) ==
    {t \in ValidTags : LiteralAt(s, b, <<"[">> \o TagWord[t] \o <<"]">>)}

(* "★+": at least one star *)
StarsMatchAny(n) == TRUE
StarsMatch(n) == n >= 1

(* The pattern of line 64 tried at position p.  Every part has one way to  *)
(* match: the digits run to the ".", the label to the first "—", the       *)
(* objective to the first "[" (over line ends too).                        *)
MatchStars(s, p, d, w1, dash, br, tags, w2, st) ==
    LET labelFrom == IF dash = w1 + 1 THEN w1 ELSE w1 + 1
        tag == CHOOSE t \in tags : TRUE
        close == br + Len(TagWord[tag]) + 1
        pr == PromptAt(s, st)
        head == /\ d >= p
                /\ d + 1 <= Len(s) /\ s[d + 1] = "."
                /\ w1 >= d + 2
                /\ dash <= Len(s)
                /\ labelFrom >= d + 3
                /\ br <= Len(s)
                /\ br - dash - 1 >= 3
                /\ s[dash + 1] \in Whitespace
                /\ s[br - 1] \in Whitespace
                /\ tags # {}
    IN IF head /\ w2 >= close + 1 /\ StarsMatch(st - w2) /\ st >= w2
       THEN [ok |-> TRUE,
             digits |-> SubSeq(s, p, d),
             label |-> Strip(SubSeq(s, labelFrom, dash - 1)),
             objective |-> Strip(SubSeq(s, dash + 1, br - 1)),
             tag |-> tag,
             stars |-> st - w2,
             prompt |-> IF pr.found THEN Some(Strip(pr.group)) ELSE None,
             end |-> pr.end]
       ELSE [ok |-> FALSE]
MatchObjective(s, p, d, w1, dash, br, tags) ==
    LET w2 == RunEnd(s, br + Len(TagWord[CHOOSE t \in tags : TRUE]) + 2, Whitespace)
    IN MatchStars(s, p, d, w1, dash, br, tags, w2, RunEnd(s, w2 + 1, {Star}))
MatchNumber(s, p, d, w1, dash) ==
    LET br == Find(s, dash + 1, "[")
    IN MatchObjective(s, p, d, w1, dash, br, TagsAt(s, br))
MatchAt(s, p) ==
    LET d == RunEnd(s, p, Digits)
    IN MatchNumber(s, p, d, RunEnd(s, d + 2, Whitespace), Find(s, d + 2, EmDash))

(* re.finditer and the loop of lines 69-84: the matches from left to right *)
(* without overlap; int() of line 70 may raise                            *)
RECURSIVE Scan(_, _)
Scan(s, p) ==
    IF p > Len(s) THEN [raised |-> FALSE, items |-> <<>>]
    ELSE LET m == MatchAt(s, p) IN
         IF ~ m.ok THEN Scan(s, p + 1)
         ELSE IF IntRaises(m.digits) THEN [raised |-> TRUE, items |-> <<>>]
         ELSE LET rest == Scan(s, m.end + 1)
                  item == [number |-> IntOf(m.digits), label |-> m.label,
                           objective |-> m.objective, tag |-> m.tag,
                           effort |-> m.stars, prompt |-> m.prompt]
              IN [raised |-> rest.raised,
                  items |-> IF rest.raised THEN <<>> ELSE <<item>> \o rest.items]
parse_checklist_chars(s) == Scan(s, 1)

(* ------------------------- oracle outputs ------------------------------ *)
BraceKinds == {"none", "{x}", "{{x}}"}

Text(ls, b) == [lines |-> ls, braces |-> b]

ValidLines == <<Line(1, "Practice", 3, Some("Why?")), Line(2, "Core", 2, None)>>
JunkLines == <<Line(1, "Advanced", 2, None)>>
NoPracticeLines == <<Line(1, "Core", 2, Some("Why?"))>>
ManyLines == [i \in 1..(ItemCap + 5) |->
                 Line(i, IF i = 1 THEN "Practice" ELSE "Core", 2,
                      IF i = 1 THEN Some("Why?") ELSE None)]

(* Texts the generation oracle may return *)
GenTexts == {Text(ValidLines, b) : b \in BraceKinds}
            \cup {Text(ManyLines, "none"), Text(JunkLines, "none"),
                  Text(NoPracticeLines, "{x}")}

OK == [text |-> <<"OK">>, braces |-> "none"]
EmptyVerdict == [text |-> <<>>, braces |-> "none"]
NearOK == [text |-> <<"OK", "Item 2 could be shorter">>, braces |-> "none"]
Issues(b) == [text |-> <<"Item 3 has no tag">>, braces |-> b]

(* Texts the critique oracle may return *)
Verdicts == {OK, EmptyVerdict, NearOK} \cup {Issues(b) : b \in BraceKinds}

(* ------------------------------ state ---------------------------------- *)
VARIABLES
    max_retries,            \* argument of generate_enhanced_study_plan
    document_exists,        \* whether the document row is found
    stage,                  \* position in generate_enhanced_study_plan
    pc,                     \* position in _generate_plan_with_critique
    current_plan_content,   \* Optional text
    attempt,                \* loop variable: iterations completed
    is_valid, error,        \* result of validate_checklist in this iteration
    critique,               \* Optional verdict
    result,                 \* Optional text returned by the controller
    raised,                 \* exception that left the invocation, or "none"
    structured_plan,        \* Optional plan built by _create_structured_plan
    db,                     \* StudyPlan rows added and committed
    outs,                   \* texts returned by the generation oracle, in order
    genCalls, critCalls,    \* generation / critique oracle invocations so far
    nVal,                   \* validate_checklist calls so far
    valArg, critArg,        \* Optional text last validated / last critiqued
    critThis,               \* critique calls in the current iteration
    lastGenCall,            \* Optional record of the latest generation request
    mode,                   \* which part of the program this run exercises
    fpc,                    \* position in that part
    goal,                   \* Optional goal string
    docs,                   \* structured_docs: the segments
    keywords,               \* goal keywords
    filtered_docs,          \* segments kept by the goal filter
    outline,                \* Optional outline string
    text_in,                \* checklist text given to validate_checklist
    val_out,                \* Optional (is_valid, error) it returned
    val_orig,               \* Optional result for the text before removals
    removed,                \* items removed from the text so far
    raw_in,                 \* raw checklist text, by character
    items_in,               \* the items raw_in was written from, if any
    parse_out,              \* Optional outcome of parse_checklist_text(raw_in)
    plan_out,               \* Optional outcome of _create_structured_plan(raw_in)
    file_id,                \* FileID.id of the running server process
    disk,                   \* ./uploads: directory -> file name -> content
    uploads,                \* the uploads processed so far
    turn,                   \* the invocation whose frame is the running one
    parked,                 \* frame of the invocation that is suspended
    switches                \* switches between the two invocations so far

chr == <<raw_in, items_in, parse_out, plan_out>>
up == <<file_id, disk, uploads>>
conc == <<turn, parked, switches>>
front == <<mode, fpc, goal, docs, keywords, filtered_docs, outline,
           text_in, val_out, val_orig, removed, chr, up, conc>>

vars == <<max_retries, document_exists, stage, pc, current_plan_content, attempt,
          is_valid, error, critique, result, raised, structured_plan, db, outs,
          genCalls, critCalls, nVal, valArg, critArg, critThis, lastGenCall,
          front>>

locals == <<current_plan_content, attempt, is_valid, error, critique>>
inputs == <<max_retries, document_exists, front>>
history == <<outs, genCalls, critCalls, nVal, valArg, critArg, critThis, lastGenCall>>

(* the front-half variables before anything ran *)
FrontIdle ==
    /\ fpc = "start"
    /\ goal = None
    /\ docs = <<>>
    /\ keywords = <<>>
    /\ filtered_docs = <<>>
    /\ outline = None
    /\ text_in = Text(<<>>, "none")
    /\ val_out = None
    /\ val_orig = None
    /\ removed = 0

(* no text is being parsed by character *)
ChrIdle ==
    /\ raw_in = <<>>
    /\ items_in = <<>>
    /\ parse_out = None
    /\ plan_out = None

(* no upload was processed *)
UpIdle ==
    /\ file_id = 0
    /\ disk = {}
    /\ uploads = <<>>

(* a single invocation *)
ConcIdle ==
    /\ turn = 1
    /\ parked = None
    /\ switches = 0

(* the controller and its caller before anything ran *)
CtlStart ==
    /\ stage = "lookup"
    /\ pc = "Generate"
    /\ current_plan_content = None
    /\ attempt = 0
    /\ is_valid = FALSE
    /\ error = None
    /\ critique = None
    /\ result = None
    /\ raised = "none"
    /\ structured_plan = None
    /\ db = <<>>
    /\ outs = <<>>
    /\ genCalls = 0
    /\ critCalls = 0
    /\ nVal = 0
    /\ valArg = None
    /\ critArg = None
    /\ critThis = 0
    /\ lastGenCall = None

Init ==
    /\ mode = "controller"
    /\ FrontIdle
    /\ ChrIdle
    /\ UpIdle
    /\ ConcIdle
    /\ max_retries \in 0..MaxRetriesBound
    /\ document_exists \in BOOLEAN
    /\ CtlStart

(* An exception leaves _generate_plan_with_critique and its caller: there  *)
(* is no try/except around the oracle calls or the document lookup.        *)
RaiseLogged(who) ==
    /\ raised' = who
    /\ UNCHANGED <<pc, stage, result, structured_plan, db>>
Raise(who) ==
    /\ raised' = who
    /\ pc' = "Raised"
    /\ stage' = "failed"
    /\ UNCHANGED <<result, structured_plan, db>>

(* for attempt in range(max_retries) *)
RangeHasNextInclusive(a, m) == a <= m
RangeHasNext(a, m) == a < m

(* if not critique *)
NotCritiqueNoneOnly(c) == c = None
NotCritique(c) == c = None \/ c[1].text = <<>>

(* where the controller goes after validate_checklist *)
AfterValidateSkipCritic(valid) == IF valid THEN "Critique" ELSE "Revise"
AfterValidate(valid) ==
    IF valid THEN "Critique"
    ELSE IF NotCritique(None) THEN "CritiqueFallback" ELSE "Revise"

(* {critique if critique != "OK" else error} in the revision message *)
StrOf(opt) == IF opt = None THEN NoneText ELSE opt[1]
FeedbackErrorFirst(c, e) == IF e # None THEN e[1] ELSE StrOf(c)
Feedback(c, e) == IF StrOf(c) # OK THEN StrOf(c) ELSE StrOf(e)

(* the request handed to the generation oracle *)
GenRequest(prior, feedback) ==
    [prior |-> prior, feedback |-> feedback,
     raw |-> current_plan_content, valid |-> is_valid,
     error |-> error, critique |-> critique]

(* step 1: document lookup *)
LookupDocument ==
    /\ stage = "lookup"
    /\ IF document_exists
       THEN /\ stage' = "controller"
            /\ UNCHANGED <<pc, raised, result, structured_plan, db>>
       ELSE Raise("document")
    /\ UNCHANGED <<inputs, locals, history>>

(* lines 249-251: initial generation *)
Generate ==
    /\ stage = "controller"
    /\ pc = "Generate"
    /\ genCalls' = genCalls + 1
    /\ lastGenCall' = Some(GenRequest(None, None))
    /\ \/ \E t \in GenTexts :
             /\ current_plan_content' = Some(t)
             /\ outs' = Append(outs, t)
             /\ pc' = "Loop"
             /\ UNCHANGED <<stage, raised, result, structured_plan, db>>
       \/ /\ Raise("generate")
          /\ UNCHANGED <<current_plan_content, outs>>
    /\ UNCHANGED <<inputs, attempt, is_valid, error, critique,
                   critCalls, nVal, valArg, critArg, critThis>>

(* lines 255-261: loop head and structural validation *)
Validate ==
    /\ stage = "controller"
    /\ pc = "Loop"
    /\ RangeHasNext(attempt, max_retries)
    /\ critique' = None
    /\ LET v == validate_checklist(current_plan_content[1]) IN
         /\ is_valid' = v.is_valid
         /\ error' = v.error
         /\ pc' = AfterValidate(v.is_valid)
    /\ nVal' = nVal + 1
    /\ valArg' = current_plan_content
    /\ critThis' = 0
    /\ UNCHANGED <<inputs, stage, current_plan_content, attempt, result, raised,
                   structured_plan, db, outs, genCalls, critCalls, critArg,
                   lastGenCall>>

(* line 289: the loop is over, return the current text *)
LoopExitSpin == "Loop"
LoopExit == "Exhausted"

Exhaust ==
    /\ stage = "controller"
    /\ pc = "Loop"
    /\ ~ RangeHasNext(attempt, max_retries)
    /\ result' = current_plan_content
    /\ pc' = LoopExit
    /\ UNCHANGED <<inputs, stage, locals, raised, structured_plan, db, history>>

(* one call of critique_checklist(current_plan_content): it returns a     *)
(* verdict or raises                                                       *)
CallCritic ==
    /\ critCalls' = critCalls + 1
    /\ critThis' = critThis + 1
    /\ critArg' = current_plan_content
    /\ \/ \E v \in Verdicts :
             /\ critique' = Some(v)
             /\ UNCHANGED <<stage, raised, structured_plan, db>>
       \/ /\ Raise("critique")
          /\ UNCHANGED critique
    /\ UNCHANGED <<inputs, current_plan_content, attempt, is_valid, error,
                   outs, genCalls, nVal, valArg, lastGenCall>>

(* lines 263-266: critique of a text that passed validation *)
IsOKLoose(v) == v.text # <<>> /\ v.text[1] = "OK"
IsOK(v) == v = OK

Critique ==
    /\ stage = "controller"
    /\ pc = "Critique"
    /\ CallCritic
    /\ \/ raised' # "none"
       \/ /\ raised' = "none"
          /\ IF IsOK(critique'[1])
             THEN /\ result' = current_plan_content
                  /\ pc' = "Accept"
             ELSE /\ pc' = IF NotCritique(critique') THEN "CritiqueFallback" ELSE "Revise"
                  /\ UNCHANGED result

(* lines 269-270: critique when none is held *)
CritiqueFallback ==
    /\ stage = "controller"
    /\ pc = "CritiqueFallback"
    /\ CallCritic
    /\ \/ raised' # "none"
       \/ /\ raised' = "none"
          /\ pc' = "Revise"
          /\ UNCHANGED result

(* lines 273-286: build the revision prompt and generate again *)
PriorFirst(cur, all) == Some(Render(all[1]))
Prior(cur, all) == Some(Render(cur[1]))

Revise ==
    /\ stage = "controller"
    /\ pc = "Revise"
    /\ LET fb == Feedback(critique, error) IN
       IF ~ (TemplateFormats(current_plan_content[1]) /\ TemplateFormats(fb))
       THEN /\ Raise("template")
            /\ UNCHANGED <<locals, history>>
       ELSE /\ genCalls' = genCalls + 1
            /\ lastGenCall' = Some(GenRequest(Prior(current_plan_content, outs),
                                              Some(Render(fb))))
            /\ \/ \E t \in GenTexts :
                     /\ current_plan_content' = Some(t)
                     /\ outs' = Append(outs, t)
                     /\ attempt' = attempt + 1
                     /\ pc' = "Loop"
                     /\ UNCHANGED <<stage, raised, result, structured_plan, db>>
               \/ /\ Raise("generate")
                  /\ UNCHANGED <<current_plan_content, outs, attempt>>
            /\ UNCHANGED <<is_valid, error, critique, critCalls, nVal, valArg,
                           critArg, critThis>>
    /\ UNCHANGED inputs

(* line 118: the controller returned, build the structured plan *)
Assemble ==
    /\ stage = "controller"
    /\ pc \in {"Accept", "Exhausted"}
    /\ structured_plan' = Some(_create_structured_plan(result[1]))
    /\ stage' = "save"
    /\ UNCHANGED <<inputs, pc, locals, result, raised, db, history>>

(* lines 121-135: add and commit the StudyPlan row *)
SaveTwice ==
    /\ stage = "save"
    /\ db' = db \o <<[plan |-> structured_plan[1], status |-> "draft"],
                     [plan |-> structured_plan[1], status |-> "draft"]>>
    /\ stage' = "done"
    /\ UNCHANGED <<inputs, pc, locals, result, raised, structured_plan, history>>
Save ==
    /\ stage = "save"
    /\ db' = Append(db, [plan |-> structured_plan[1], status |-> "draft"])
    /\ stage' = "done"
    /\ UNCHANGED <<inputs, pc, locals, result, raised, structured_plan, history>>

Next ==
    \/ LookupDocument
    \/ Generate
    \/ Validate
    \/ Exhaust
    \/ Critique
    \/ CritiqueFallback
    \/ Revise
    \/ Assemble
    \/ Save

Spec == Init /\ [][Next]_vars

(* Every oracle call returns or raises, and the synchronous steps run.     *)
FairSpec == Spec /\ WF_vars(Next)

(* ======================= the front half and the validator =============== *)
(* A run of FrontSpec exercises one part of the program on one input:      *)
(* extract_goal_keywords, filter_documents_by_goal, _create_document_      *)
(* outline, validate_checklist, or steps 3-5 of generate_enhanced_study_   *)
(* plan up to the outline the prompt is built from.                        *)
ctl == <<max_retries, document_exists, stage, pc, current_plan_content, attempt,
         is_valid, error, critique, result, raised, structured_plan, db, outs,
         genCalls, critCalls, nVal, valArg, critArg, critThis, lastGenCall>>

SeqsUpTo(S, n) == UNION {[1..k -> S] : k \in 0..n}
Fill(c, n) == [i \in 1..n |-> c]
Numbered(texts) == [i \in 1..Len(texts) |-> Doc(texts[i], i)]

(* inputs of filter_documents_by_goal *)
FilterTexts == {<<>>, <<"t">>, <<"T","e">>, <<"E","T">>, <<"e","e">>}
FilterKeywords == {<<>>, <<"t">>, <<"T","E">>, <<"e","t">>, <<"z">>}
FilterDocs == {Numbered(ts) : ts \in SeqsUpTo(FilterTexts, MaxDocs)}
KeywordLists == SeqsUpTo(FilterKeywords, MaxKeywords)

(* inputs of extract_goal_keywords *)
GoalChars == {"t", "h", "e", "T", " ", ";"}
ExamPrep == <<"e","x","a","m"," ","p","r","e","p">>
ForTheExam == <<"F","o","r",",","t","h","e",".","E","x","a","m","\n","a","t"," ","9">>
Goals == SeqsUpTo(GoalChars, MaxGoalLen) \cup {ExamPrep, ForTheExam}

(* inputs of _create_document_outline *)
OutlineTexts == {<<>>, <<"e">>, <<" ">>,
                 Fill("e", (MaxChars \div 2) - 1), Fill("e", MaxChars - 2),
                 Fill("e", MaxChars), Fill("e", MaxChars + 1)}
OutlineDocs == {Numbered(ts) : ts \in SeqsUpTo(OutlineTexts, MaxDocs)}

(* inputs of steps 3-5 of generate_enhanced_study_plan *)
PipelineGoals == {None, Some(<<>>), Some(<<"t","h","e">>), Some(<<"T","e","e">>),
                  Some(<<"a","t"," ","t","e","e">>), Some(<<"z","z","z">>)}
PipelineTexts == {<<>>, <<" ">>, <<"t","e","e">>, <<"\n","e","\t">>,
                  Fill("e", MinOutlineChars - 1), Fill("e", MinOutlineChars)}
LongPipelineTexts == {Fill(" ", MaxChars + 1), <<"T","E","E">> \o Fill("e", MaxChars)}
PipelineDocs == {Numbered(ts) : ts \in SeqsUpTo(PipelineTexts, MaxDocs)}
                \cup {Numbered(<<t>>) : t \in LongPipelineTexts}

(* inputs of validate_checklist *)
Shape(tag, stars, prompt) == [tag |-> tag, stars |-> stars, prompt |-> prompt]
Shapes == {Shape("Practice", 2, Some("Why?")), Shape("Practice", 2, None),
           Shape("Core", 2, Some("Why?")), Shape("Core", 2, None),
           Shape("Core", 2, Some("")), Shape("Core", 6, None),
           Shape("Practice", 6, Some("Why?")), Shape("Core", 0, Some("Why?")),
           Shape("Advanced", 2, Some("Why?")), Shape("Overview", 5, None),
           Shape("Optional", 1, None)}
Numberings == {"ordinal", "from2", "same"}
NumberAt(kind, i) == IF kind = "ordinal" THEN i ELSE IF kind = "from2" THEN i + 1 ELSE 1
MkText(shapes, kind) ==
    Text([i \in 1..Len(shapes) |->
             Line(NumberAt(kind, i), shapes[i].tag, shapes[i].stars, shapes[i].prompt)],
         "none")
ShortTexts == {MkText(sh, k) : sh \in SeqsUpTo(Shapes, MaxLines), k \in Numberings}
PadText(head, second, total) ==
    MkText(<<head, second>> \o Fill(Shape("Core", 2, None), total - 2), "ordinal")
LongTexts == {PadText(h, sec, n) : h \in Shapes,
                                   sec \in {Shape("Core", 2, None), Shape("Core", 6, None)},
                                   n \in {ItemCap, ItemCap + 1}}
ValTexts == ShortTexts \cup LongTexts

(* inputs of parse_checklist_text, by character *)
(* f"{item['number']}. ...": the decimal digits of a number *)
DigitChars == <<"0", "1", "2", "3", "4", "5", "6", "7", "8", "9">>
RECURSIVE DigitsOf(_)
DigitsOf(n) ==
    IF n < 10 THEN <<DigitChars[n + 1]>>
    ELSE DigitsOf(n \div 10) \o <<DigitChars[(n % 10) + 1]>>
(* an item written after the item template:                                *)
(* <n>. <label> — <objective> [Tag] <effort>, then a line ↳ Prompt: <text> *)
HeadLine(digits, label, objective, tagword, stars) ==
    digits \o <<".", " ">> \o label \o <<" ", EmDash, " ">> \o objective
           \o <<" ", "[">> \o tagword \o <<"]", " ">> \o Fill(Star, stars)
PromptLine(prompt) == <<Arrow, " ">> \o PromptWord \o <<" ">> \o prompt
RenderItem(it) ==
    HeadLine(DigitsOf(it.number), it.label, it.objective, TagWord[it.tag], it.effort)
    \o (IF it.prompt = None THEN <<>> ELSE <<"\n">> \o PromptLine(it.prompt[1]))
RECURSIVE JoinLines(_)
JoinLines(ls) ==
    IF ls = <<>> THEN <<>>
    ELSE IF Len(ls) = 1 THEN ls[1]
    ELSE ls[1] \o <<"\n">> \o JoinLines(Tail(ls))
RenderItems(items) == JoinLines([i \in 1..Len(items) |-> RenderItem(items[i])])

Why == <<"W", "h", "y", "?">>
Item(n, label, objective, tag, effort, prompt) ==
    [number |-> n, label |-> label, objective |-> objective, tag |-> tag,
     effort |-> effort, prompt |-> prompt]
ItemLabels == {<<"a">>, <<"a", " ", "b">>, <<"a", EmDash, "b">>}
ItemObjectives == {<<"o">>, <<"o", "[", "1", "]">>}
FirstItems == {Item(1, l, o, t, e, pr) :
                  l \in ItemLabels, o \in ItemObjectives, t \in {"Core", "Practice"},
                  e \in {MinEffort, MaxEffort}, pr \in {None, Some(Why)}}
LaterShapes == {<<"Overview", None>>, <<"Optional", Some(Why)>>}
ItemSeqs ==
    {<<first>> \o [i \in 1..Len(sh) |->
                     Item(i + 1, <<"c">>, <<"d">>, sh[i][1], MinEffort + i, sh[i][2])] :
        first \in FirstItems, sh \in SeqsUpTo(LaterShapes, MaxLaterItems)}

(* lines of a raw text that was not written from items *)
PlainItemLine == HeadLine(<<"2">>, <<"B">>, <<"l">>, TagWord["Core"], 2)
RawLines ==
    {PlainItemLine,
     HeadLine(<<"3">>, <<"C">>, <<"m">>, TagWord["Practice"], 6) \o <<"\n">> \o PromptLine(Why),
     <<"1", ".", " ", "I", "n", "t", "r", "o">>,
     <<"n", "o", "t", "e">>,
     HeadLine(<<"4">>, <<"D">>, <<"n">>, <<"A", "d", "v">>, 1),
     HeadLine(<<"5">>, <<"E">>, <<"p">>, TagWord["Core"], 0),
     HeadLine(<<"6">>, <<"F">>, <<"q">>, TagWord["Core"], 1) \o <<"\n">> \o PromptLine(<<>>),
     HeadLine(Fill("7", IntMaxStrDigits + 1), <<"G">>, <<"r">>, TagWord["Core"], 1)}
RawTexts == {JoinLines(ls) : ls \in SeqsUpTo(RawLines, MaxRawLines)}

FrontInit ==
    /\ max_retries = 0
    /\ document_exists = TRUE
    /\ CtlStart
    /\ fpc = "start"
    /\ filtered_docs = <<>>
    /\ outline = None
    /\ val_out = None
    /\ val_orig = None
    /\ removed = 0
    /\ UpIdle
    /\ ConcIdle
    /\ \/ /\ mode = "keywords"
          /\ ChrIdle
          /\ goal \in {Some(g) : g \in Goals}
          /\ docs = <<>> /\ keywords = <<>> /\ text_in = Text(<<>>, "none")
       \/ /\ mode = "filter"
          /\ ChrIdle
          /\ docs \in FilterDocs
          /\ keywords \in KeywordLists
          /\ goal = None /\ text_in = Text(<<>>, "none")
       \/ /\ mode = "outline"
          /\ ChrIdle
          /\ docs \in OutlineDocs
          /\ goal = None /\ keywords = <<>> /\ text_in = Text(<<>>, "none")
       \/ /\ mode = "pipeline"
          /\ ChrIdle
          /\ goal \in PipelineGoals
          /\ docs \in PipelineDocs
          /\ keywords = <<>> /\ text_in = Text(<<>>, "none")
       \/ /\ mode = "validate"
          /\ ChrIdle
          /\ text_in \in ValTexts
          /\ goal = None /\ docs = <<>> /\ keywords = <<>>
       \/ /\ mode = "parse"
          /\ \/ items_in \in ItemSeqs /\ raw_in = RenderItems(items_in)
             \/ items_in = <<>> /\ raw_in \in RawTexts
          /\ parse_out = None
          /\ plan_out = None
          /\ goal = None /\ docs = <<>> /\ keywords = <<>> /\ text_in = Text(<<>>, "none")

(* extract_goal_keywords(goal) *)
ApplyExtract ==
    /\ mode = "keywords"
    /\ fpc = "start"
    /\ keywords' = extract_goal_keywords(goal[1])
    /\ fpc' = "done"
    /\ UNCHANGED <<ctl, chr, up, conc, mode, goal, docs, filtered_docs, outline,
                   text_in, val_out, val_orig, removed>>

(* filter_documents_by_goal(docs, keywords) *)
ApplyFilter ==
    /\ mode = "filter"
    /\ fpc = "start"
    /\ filtered_docs' = filter_documents_by_goal(docs, keywords)
    /\ fpc' = "done"
    /\ UNCHANGED <<ctl, chr, up, conc, mode, goal, docs, keywords, outline,
                   text_in, val_out, val_orig, removed>>

(* _create_document_outline(docs) *)
ApplyOutline ==
    /\ mode = "outline"
    /\ fpc = "start"
    /\ outline' = Some(_create_document_outline(docs))
    /\ fpc' = "done"
    /\ UNCHANGED <<ctl, chr, up, conc, mode, goal, docs, keywords, filtered_docs,
                   text_in, val_out, val_orig, removed>>

(* generate_enhanced_study_plan lines 99-104: "if goal:" *)
GoalGiven(g) == g # None /\ g[1] # <<>>

FilterByGoal ==
    /\ mode = "pipeline"
    /\ fpc = "start"
    /\ IF GoalGiven(goal)
       THEN /\ keywords' = extract_goal_keywords(goal[1])
            /\ filtered_docs' = filter_documents_by_goal(docs, keywords')
       ELSE /\ filtered_docs' = docs
            /\ UNCHANGED keywords
    /\ fpc' = "filtered"
    /\ UNCHANGED <<ctl, chr, up, conc, mode, goal, docs, outline, text_in, val_out, val_orig, removed>>

(* line 107 *)
BuildOutline ==
    /\ mode = "pipeline"
    /\ fpc = "filtered"
    /\ outline' = Some(_create_document_outline(filtered_docs))
    /\ fpc' = "outlined"
    /\ UNCHANGED <<ctl, chr, up, conc, mode, goal, docs, keywords, filtered_docs,
                   text_in, val_out, val_orig, removed>>

(* _generate_plan_with_critique lines 175-177 *)
EnterController ==
    /\ mode = "pipeline"
    /\ fpc = "outlined"
    /\ outline' = Some(PromptOutline(outline[1]))
    /\ fpc' = "prompt"
    /\ UNCHANGED <<ctl, chr, up, conc, mode, goal, docs, keywords, filtered_docs,
                   text_in, val_out, val_orig, removed>>

(* validate_checklist(text) *)
ApplyValidate ==
    /\ mode = "validate"
    /\ fpc = "start"
    /\ val_out' = Some(validate_checklist(text_in))
    /\ val_orig' = val_out'
    /\ fpc' = "done"
    /\ UNCHANGED <<ctl, chr, up, conc, mode, goal, docs, keywords, filtered_docs, outline,
                   text_in, removed>>

(* one item line is removed from the text and the text validated again *)
Without(seq, i) == SubSeq(seq, 1, i - 1) \o SubSeq(seq, i + 1, Len(seq))

RemoveItem ==
    /\ mode = "validate"
    /\ fpc = "done"
    /\ removed < MaxRemovals
    /\ \E i \in 1..Len(text_in.lines) :
          text_in' = [text_in EXCEPT !.lines = Without(text_in.lines, i)]
    /\ val_out' = Some(validate_checklist(text_in'))
    /\ removed' = removed + 1
    /\ UNCHANGED <<ctl, chr, up, conc, mode, fpc, goal, docs, keywords, filtered_docs, outline,
                   val_orig>>

(* parse_checklist_text(text) on a raw text *)
ApplyParse ==
    /\ mode = "parse"
    /\ fpc = "start"
    /\ parse_out' = Some(parse_checklist_chars(raw_in))
    /\ fpc' = "parsed"
    /\ UNCHANGED <<ctl, up, conc, mode, goal, docs, keywords, filtered_docs, outline,
                   text_in, val_out, val_orig, removed, raw_in, items_in, plan_out>>

(* _create_structured_plan(text) on the same text: line 302 parses it      *)
(* again, an exception of the parser leaves the assembler                  *)
ApplyAssemble ==
    /\ mode = "parse"
    /\ fpc = "parsed"
    /\ plan_out' = LET parsed == parse_checklist_chars(raw_in) IN
                   IF parsed.raised THEN Some([raised |-> TRUE, plan |-> None])
                   ELSE Some([raised |-> FALSE, plan |-> Some(PlanOf(parsed.items))])
    /\ fpc' = "done"
    /\ UNCHANGED <<ctl, up, conc, mode, goal, docs, keywords, filtered_docs, outline,
                   text_in, val_out, val_orig, removed, raw_in, items_in, parse_out>>

FrontNext ==
    \/ ApplyExtract
    \/ ApplyFilter
    \/ ApplyOutline
    \/ FilterByGoal
    \/ BuildOutline
    \/ EnterController
    \/ ApplyValidate
    \/ RemoveItem
    \/ ApplyParse
    \/ ApplyAssemble

FrontSpec == FrontInit /\ [][FrontNext]_vars

(* ------------- pdf_processing.py: process_pdf_with_pymupdf ------------- *)
harness == <<mode, fpc, goal, docs, keywords, filtered_docs, outline,
             text_in, val_out, val_orig, removed>>

FileNames == {"a.pdf", "b.pdf"}
FileBytes == {"x", "y"}

(* os.path.exists(file_location) *)
Exists(dir, name) == \E f \in disk : f.dir = dir /\ f.name = name
ContentOf(files, dir, name) ==
    (CHOOSE f \in files : f.dir = dir /\ f.name = name).content

UploadInit ==
    /\ mode = "upload"
    /\ max_retries = 0
    /\ document_exists = TRUE
    /\ CtlStart
    /\ FrontIdle
    /\ ChrIdle
    /\ ConcIdle
    /\ UpIdle

(* lines 85-94: the directory is named after FileID.id, the counter is     *)
(* incremented, the upload is written only if no file of that name is in   *)
(* the directory, and the file at that path is opened for extraction       *)
ProcessUpload ==
    /\ mode = "upload"
    /\ Len(uploads) < MaxUploads
    /\ \E name \in FileNames, bytes \in FileBytes :
          LET base_dir == file_id
              written == IF Exists(base_dir, name) THEN disk
                         ELSE disk \cup {[dir |-> base_dir, name |-> name,
                                          content |-> bytes]}
          IN /\ file_id' = file_id + 1
             /\ disk' = written
             /\ uploads' = Append(uploads,
                                  [dir |-> base_dir, filename |-> name, supplied |-> bytes,
                                   opened |-> ContentOf(written, base_dir, name)])
    /\ UNCHANGED <<ctl, harness, chr, conc>>

(* The server process is started again: the class attribute FileID.id is   *)
(* 0 again (upload.py line 10), the ./uploads directory is as it was       *)
Restart ==
    /\ mode = "upload"
    /\ file_id > 0
    /\ file_id' = 0
    /\ UNCHANGED <<ctl, harness, chr, conc, disk, uploads>>

UploadNext ==
    \/ ProcessUpload
    \/ Restart

UploadSpec == UploadInit /\ [][UploadNext]_vars

(* ---------- two invocations of generate_enhanced_study_plan ------------ *)
(* Every variable of the function and of _generate_plan_with_critique is   *)
(* a parameter or a local of the call: an invocation is its frame.  The    *)
(* running invocation's frame is in the controller variables, the other    *)
(* invocation's frame is parked.                                           *)
Frame ==
    [max_retries |-> max_retries,
     document_exists |-> document_exists,
     stage |-> stage,
     pc |-> pc,
     current_plan_content |-> current_plan_content,
     attempt |-> attempt,
     is_valid |-> is_valid,
     error |-> error,
     critique |-> critique,
     result |-> result,
     raised |-> raised,
     structured_plan |-> structured_plan,
     db |-> db,
     outs |-> outs,
     genCalls |-> genCalls,
     critCalls |-> critCalls,
     nVal |-> nVal,
     valArg |-> valArg,
     critArg |-> critArg,
     critThis |-> critThis,
     lastGenCall |-> lastGenCall]

(* frame of an invocation that has not started *)
StartFrame(retries) ==
    [max_retries |-> retries,
     document_exists |-> TRUE,
     stage |-> "lookup",
     pc |-> "Generate",
     current_plan_content |-> None,
     attempt |-> 0,
     is_valid |-> FALSE,
     error |-> None,
     critique |-> None,
     result |-> None,
     raised |-> "none",
     structured_plan |-> None,
     db |-> <<>>,
     outs |-> <<>>,
     genCalls |-> 0,
     critCalls |-> 0,
     nVal |-> 0,
     valArg |-> None,
     critArg |-> None,
     critThis |-> 0,
     lastGenCall |-> None]

ConcRetries == {0, 1}

ConcInit ==
    /\ mode = "concurrent"
    /\ max_retries \in ConcRetries
    /\ document_exists = TRUE
    /\ CtlStart
    /\ FrontIdle
    /\ ChrIdle
    /\ UpIdle
    /\ turn = 1
    /\ parked \in {Some(StartFrame(r)) : r \in ConcRetries}
    /\ switches = 0

(* the running invocation waits in an oracle call (llm.invoke at lines     *)
(* 249 and 284, critique_checklist at 263 and 270), has not started or has *)
(* ended                                                                   *)
Suspended ==
    \/ stage = "controller" /\ pc \in {"Generate", "Critique", "CritiqueFallback", "Revise"}
    \/ stage \in {"lookup", "done", "failed"}

(* the other invocation runs on: each sees its own frame only *)
SwitchSharedText ==
    /\ mode = "concurrent"
    /\ Suspended
    /\ switches < MaxSwitches
    /\ max_retries' = parked[1].max_retries
    /\ document_exists' = parked[1].document_exists
    /\ stage' = parked[1].stage
    /\ pc' = parked[1].pc
    /\ UNCHANGED current_plan_content
    /\ attempt' = parked[1].attempt
    /\ is_valid' = parked[1].is_valid
    /\ error' = parked[1].error
    /\ critique' = parked[1].critique
    /\ result' = parked[1].result
    /\ raised' = parked[1].raised
    /\ structured_plan' = parked[1].structured_plan
    /\ db' = parked[1].db
    /\ outs' = parked[1].outs
    /\ genCalls' = parked[1].genCalls
    /\ critCalls' = parked[1].critCalls
    /\ nVal' = parked[1].nVal
    /\ valArg' = parked[1].valArg
    /\ critArg' = parked[1].critArg
    /\ critThis' = parked[1].critThis
    /\ lastGenCall' = parked[1].lastGenCall
    /\ parked' = Some(Frame)
    /\ turn' = 3 - turn
    /\ switches' = switches + 1
    /\ UNCHANGED <<harness, chr, up>>
Switch ==
    /\ mode = "concurrent"
    /\ Suspended
    /\ switches < MaxSwitches
    /\ max_retries' = parked[1].max_retries
    /\ document_exists' = parked[1].document_exists
    /\ stage' = parked[1].stage
    /\ pc' = parked[1].pc
    /\ current_plan_content' = parked[1].current_plan_content
    /\ attempt' = parked[1].attempt
    /\ is_valid' = parked[1].is_valid
    /\ error' = parked[1].error
    /\ critique' = parked[1].critique
    /\ result' = parked[1].result
    /\ raised' = parked[1].raised
    /\ structured_plan' = parked[1].structured_plan
    /\ db' = parked[1].db
    /\ outs' = parked[1].outs
    /\ genCalls' = parked[1].genCalls
    /\ critCalls' = parked[1].critCalls
    /\ nVal' = parked[1].nVal
    /\ valArg' = parked[1].valArg
    /\ critArg' = parked[1].critArg
    /\ critThis' = parked[1].critThis
    /\ lastGenCall' = parked[1].lastGenCall
    /\ parked' = Some(Frame)
    /\ turn' = 3 - turn
    /\ switches' = switches + 1
    /\ UNCHANGED <<harness, chr, up>>

ConcNext ==
    \/ Next
    \/ Switch

ConcSpec == ConcInit /\ [][ConcNext]_vars

(* ============================ properties =============================== *)
OracleErrors == {"generate", "critique"}
Terminal == pc \in {"Accept", "Exhausted", "Raised"}
LastOut == outs[Len(outs)]
IsRevisionCall == lastGenCall # None /\ genCalls > 1

(* C1: one invocation of the controller invokes the generation oracle at   *)
(* most 1 + max_retries times.                                             *)
C1_GenerationBound == genCalls <= 1 + max_retries
C1_Witness == pc = "Exhausted" /\ max_retries >= 2 /\ genCalls = 1 + max_retries

(* C2: one invocation of the controller invokes the critique oracle at     *)
(* most max_retries + 1 times, whatever the verdict texts are.             *)
C2_CritiqueBound == critCalls <= max_retries + 1

(* C3: once invoked, the controller eventually reaches a terminal state    *)
(* (Accept, Exhausted or a raised error), whatever the oracles return.     *)
C3_Terminates == (stage = "controller") ~> Terminal
C3_Witness == pc = "Exhausted" /\ attempt = max_retries /\ max_retries >= 1

(* C4: Accept is reached only with a current text that passed structural   *)
(* validation and whose critique verdict is exactly "OK"; that text is     *)
(* returned unchanged and no oracle is called afterwards.                  *)
C4_AcceptState ==
    pc = "Accept" =>
        /\ is_valid
        /\ valArg = current_plan_content
        /\ validate_checklist(current_plan_content[1]).is_valid
        /\ critique = Some(OK)
        /\ critArg = current_plan_content
        /\ result = current_plan_content
        /\ result = Some(LastOut)
C4_AcceptOnlyValidAndOK ==
    /\ []C4_AcceptState
    /\ [][pc = "Accept" => UNCHANGED <<pc, result, genCalls, critCalls>>]_vars
C4_Witness == pc = "Accept" /\ attempt >= 1 /\ critCalls >= 2

(* C5: if Accept is not reached within the retry budget the controller     *)
(* ends in Exhausted without raising (only an oracle error may raise) and  *)
(* returns the output of the most recent generation call.                  *)
C5_ExhaustedReturnsLast ==
    /\ raised \in {"none", "document"} \cup OracleErrors
    /\ pc = "Exhausted" => result = Some(LastOut)

(* C6 as stated: every text returned by the generation oracle has been     *)
(* parsed and validated before the controller generates again or ends.     *)
C6_EveryTextValidated ==
    pc \in {"Revise", "Accept", "Exhausted"} =>
        nVal = Len(outs) /\ valArg = current_plan_content

(* C6 amended: every generated text except the one of the last allowed     *)
(* generation call (number 1 + max_retries) is validated before the        *)
(* controller generates again or ends; that last text is returned at       *)
(* Exhausted without having been validated.                                *)
C6_AllButLastValidated ==
    /\ pc \in {"Revise", "Accept"} =>
          nVal = Len(outs) /\ valArg = current_plan_content
    /\ pc = "Raised" => nVal = Len(outs)
    /\ pc = "Exhausted" =>
          /\ Len(outs) = 1 + max_retries
          /\ nVal = max_retries
          /\ result = Some(LastOut)
C6_Witness == pc = "Exhausted" /\ max_retries >= 1 /\ nVal = max_retries

(* C7 as stated: the critique oracle is invoked on a text only after that  *)
(* text passed validation; after a failed validation the controller goes   *)
(* to Revise without a critique call.                                      *)
C7_CritiqueOnlyAfterPass ==
    /\ critThis > 0 => is_valid
    /\ (pc = "Revise" /\ ~ is_valid) => critThis = 0

(* C7 amended: the critique oracle is invoked on a text only after that    *)
(* text has been through validation, passed or failed; after a failed      *)
(* validation the controller calls the critique oracle exactly once on     *)
(* the failed text before it goes to Revise.                               *)
C7_CritiqueAfterValidation ==
    /\ critThis > 0 => critArg = valArg /\ valArg # None
    /\ (pc = "Revise" /\ ~ is_valid) =>
          critThis = 1 /\ critArg = current_plan_content
    /\ (pc \in {"Critique", "CritiqueFallback"}) => valArg = current_plan_content
C7_Witness == pc = "Revise" /\ ~ is_valid /\ critThis = 1 /\ attempt >= 1

(* C8 as stated: the feedback of a revision call is the validator's error  *)
(* message whenever validation of the prior text failed, and the critique  *)
(* text only when validation passed and the critique was not "OK".         *)
C8_ErrorMessageFirst ==
    IsRevisionCall =>
        LET r == lastGenCall[1] IN
        /\ ~ r.valid => r.feedback = Some(Render(r.error[1]))
        /\ r.valid => r.critique # Some(OK) /\ r.feedback = Some(Render(r.critique[1]))

(* C8 amended: the feedback of a revision call is the critic's latest      *)
(* verdict on the prior text whenever that verdict is not exactly "OK",    *)
(* whether validation passed or failed; it is the validator's error        *)
(* message only when that verdict is "OK" (the text "None" if validation   *)
(* had passed).  The message is rendered by the prompt template.           *)
C8_CritiqueFirst ==
    IsRevisionCall =>
        LET r == lastGenCall[1] IN
        /\ r.critique # None
        /\ r.critique[1] # OK => r.feedback = Some(Render(r.critique[1]))
        /\ (r.critique[1] = OK /\ ~ r.valid) =>
              r.error # None /\ r.feedback = Some(Render(r.error[1]))
        /\ (r.critique[1] = OK /\ r.valid) =>
              r.error = None /\ r.feedback = Some(NoneText)
C8_Witness ==
    /\ IsRevisionCall
    /\ ~ lastGenCall[1].valid
    /\ lastGenCall[1].error = Some(MsgCount)
    /\ lastGenCall[1].feedback = Some(Issues("none"))

(* C9: the first generation call carries no prior text and no feedback;    *)
(* every later call carries the raw text of the immediately preceding      *)
(* generation and the feedback built from that same text.                  *)
C9_PriorIsPrecedingRawText ==
    lastGenCall # None =>
        LET r == lastGenCall[1] IN
        /\ genCalls = 1 => r.prior = None /\ r.feedback = None
        /\ genCalls > 1 =>
              /\ r.prior = Some(outs[genCalls - 1])
              /\ r.feedback # None
              /\ r.raw = Some(outs[genCalls - 1])

(* C10: an error raised by an oracle call leaves the controller at once    *)
(* and unmodified: nothing is returned, assembled or persisted, no oracle  *)
(* call or validation follows, and the outcome is not Exhausted; when the  *)
(* first generation raises nothing was validated, critiqued or revised.    *)
C10_RaisedState ==
    raised \in OracleErrors =>
        /\ pc = "Raised"
        /\ stage = "failed"
        /\ result = None /\ structured_plan = None /\ db = <<>>
        /\ (raised = "generate" /\ genCalls = 1) =>
              outs = <<>> /\ nVal = 0 /\ critCalls = 0 /\ attempt = 0
C10_OracleErrorPropagates ==
    /\ []C10_RaisedState
    /\ [][(raised \in OracleErrors) =>
            UNCHANGED <<pc, stage, raised, genCalls, critCalls, nVal, outs,
                        result, structured_plan, db>>]_vars
C10_Witness == raised = "generate" /\ genCalls = 1 /\ stage = "failed"

(* C11: for an existing document and oracles that never raise, the         *)
(* invocation always yields a structured plan whatever the oracle texts    *)
(* contain; the only failures are oracle errors.                           *)
C11_OnlyOracleErrorsFail ==
    /\ (document_exists /\ stage = "failed") => raised \in OracleErrors
    /\ (document_exists /\ pc = "Raised") => raised \in OracleErrors

(* ------------------ validator claims (validate mode) ------------------- *)
Items == parse_checklist_text(text_in)
Validated == mode = "validate" /\ val_out # None
HasPractice == \E i \in 1..Len(Items) : Items[i].tag = "Practice"
HasPrompt == \E i \in 1..Len(Items) : Items[i].prompt # None /\ Items[i].prompt[1] # ""
BadEfforts == {i \in 1..Len(Items) : Items[i].effort < MinEffort \/ Items[i].effort > MaxEffort}
AllChecks ==
    /\ Items # <<>>
    /\ \A i \in 1..Len(Items) : Items[i].tag \in {"Core", "Practice", "Overview", "Optional"}
    /\ BadEfforts = {}
    /\ Len(Items) <= ItemCap
    /\ HasPractice
    /\ HasPrompt

(* C12: validate_checklist(text) passes exactly when the items parsed from *)
(* text are non-empty, carry only the four tags and efforts in 1..5, are   *)
(* at most 15, include a Practice item and an item with a non-empty        *)
(* prompt; otherwise it fails with a message.                              *)
C12_PassIffAllChecks ==
    Validated =>
        /\ val_out[1].is_valid <=> AllChecks
        /\ val_out[1].is_valid => val_out[1].error = None
        /\ ~ val_out[1].is_valid =>
              val_out[1].error # None /\ val_out[1].error[1].text # <<>>
C12_Witness ==
    Validated /\ removed = 0 /\ val_out[1].is_valid /\ Len(Items) = ItemCap

(* C13 as stated: a failed validation returns the single message of the    *)
(* first violated check in the order non-empty, tags, efforts, count,      *)
(* Practice, prompt; several out-of-range efforts give one message.        *)
C13_SingleFirstViolation ==
    (Validated /\ ~ val_out[1].is_valid) =>
        val_out[1].error =
            Some(IF Items = <<>> THEN MsgParse
                 ELSE IF \E i \in 1..Len(Items) : Items[i].tag \notin ValidTags
                      THEN Msg(MsgTag)
                 ELSE IF BadEfforts # {} THEN Msg(MsgEffort)
                 ELSE IF Len(Items) > ItemCap THEN MsgCount
                 ELSE IF ~ HasPractice THEN MsgPractice
                 ELSE MsgPrompt)

(* C13 amended: a failed validation returns the diagnostic of the first    *)
(* failing stage in the order non-empty, item fields, count, Practice,     *)
(* prompt, and of that stage only; the item-field stage reports one effort *)
(* message for every item whose effort is out of range (never a tag        *)
(* message: the parser yields only the four tags).                         *)
C13_FirstStageEveryItemError ==
    (Validated /\ ~ val_out[1].is_valid) =>
        LET e == val_out[1].error[1] IN
        /\ Items = <<>> => e = MsgParse
        /\ BadEfforts # {} =>
              /\ Len(e.text) = Cardinality(BadEfforts)
              /\ \A k \in 1..Len(e.text) : e.text[k] = MsgEffort
        /\ (Items # <<>> /\ BadEfforts = {}) =>
              e = IF Len(Items) > ItemCap THEN MsgCount
                  ELSE IF ~ HasPractice THEN MsgPractice
                  ELSE MsgPrompt
C13_Witness ==
    /\ Validated
    /\ Len(Items) > ItemCap
    /\ ~ HasPractice
    /\ Cardinality(BadEfforts) >= 2
    /\ Len(val_out[1].error[1].text) = Cardinality(BadEfforts)

(* C14: when items are removed from a checklist that passed validation so  *)
(* that no Practice item remains, or no item with a non-empty prompt       *)
(* remains, the remaining checklist fails validation.                      *)
C14_RemovalFails ==
    (/\ mode = "validate"
     /\ removed > 0
     /\ val_orig # None
     /\ val_orig[1].is_valid
     /\ (~ HasPractice \/ ~ HasPrompt)) => ~ val_out[1].is_valid
C14_Witness ==
    /\ mode = "validate"
    /\ removed > 0
    /\ val_orig # None
    /\ val_orig[1].is_valid
    /\ Items # <<>>
    /\ ~ HasPractice
    /\ HasPrompt
    /\ val_out[1] = [is_valid |-> FALSE, error |-> Some(MsgPractice)]

(* C15: every checklist that passes structural validation has a contiguous *)
(* number sequence: the i-th parsed item has number i.                     *)
C15_ContiguousNumbers ==
    (Validated /\ val_out[1].is_valid) =>
        \A i \in 1..Len(Items) : Items[i].number = i

(* -------------------- goal filter claims (filter mode) ----------------- *)
(* keyword kw occurs in text as a case-insensitive substring *)
MatchesKeyword(text, kw) ==
    \E off \in 0..(Len(text) - Len(kw)) :
        \A j \in 1..Len(kw) : LowerChar(text[off + j]) = LowerChar(kw[j])
MatchesAny(d) == \E i \in 1..Len(keywords) : MatchesKeyword(d.page_content, keywords[i])
Filtered == mode = "filter" /\ fpc = "done"

(* C16: for a non-empty segment sequence and keywords that match none of   *)
(* the segments filter_documents_by_goal returns the input sequence; it    *)
(* never returns an empty sequence when its input is non-empty.            *)
C16_FailOpen ==
    Filtered =>
        /\ (docs # <<>> /\ \A i \in 1..Len(docs) : ~ MatchesAny(docs[i])) =>
              filtered_docs = docs
        /\ docs # <<>> => filtered_docs # <<>>
C16_Witness ==
    /\ Filtered
    /\ Len(docs) >= 2
    /\ keywords # <<>>
    /\ \A i \in 1..Len(docs) : ~ MatchesAny(docs[i])
    /\ filtered_docs = docs

(* C17: filter_documents_by_goal returns S unchanged when K is empty; when *)
(* K is not empty and a segment matches it returns exactly the segments of *)
(* S whose text contains a keyword as a case-insensitive substring, in     *)
(* input order and unmodified.  In the pipeline an empty goal, or a goal   *)
(* yielding no keywords, leaves the segments unfiltered.                   *)
C17_ExactlyMatching ==
    /\ Filtered =>
          /\ keywords = <<>> => filtered_docs = docs
          /\ (keywords # <<>> /\ \E i \in 1..Len(docs) : MatchesAny(docs[i])) =>
                filtered_docs = SelectSeq(docs, MatchesAny)
    /\ (mode = "pipeline" /\ fpc # "start") =>
          /\ (goal = None \/ goal[1] = <<>>) => filtered_docs = docs
          /\ (goal # None /\ extract_goal_keywords(goal[1]) = <<>>) => filtered_docs = docs
C17_Witness ==
    /\ Filtered
    /\ Len(docs) = 2
    /\ ~ MatchesAny(docs[1])
    /\ filtered_docs = <<docs[2]>>
    /\ ~ \E i \in 1..Len(keywords) : Contains(docs[2].page_content, keywords[i])

(* ------------------ keyword claims (keywords mode) --------------------- *)
Delimiters == Whitespace \cup Separators
(* the maximal runs <<a, b>> of non-delimiter characters of the goal *)
Runs(g) ==
    {r \in (1..Len(g)) \X (1..Len(g)) :
        /\ r[1] <= r[2]
        /\ \A k \in r[1]..r[2] : g[k] \notin Delimiters
        /\ (r[1] = 1 \/ g[r[1] - 1] \in Delimiters)
        /\ (r[2] = Len(g) \/ g[r[2] + 1] \in Delimiters)}
Token(g, r) == [k \in 1..(r[2] - r[1] + 1) |-> LowerChar(g[r[1] + k - 1])]
Qualifying(g) == {r \in Runs(g) : r[2] - r[1] + 1 >= 3 /\ Token(g, r) \notin StopWords}

(* C18: extract_goal_keywords returns exactly the tokens of the lowercased *)
(* goal, split at whitespace and punctuation, that have at least 3         *)
(* characters and are no stop words, in their order; the empty goal yields *)
(* no keywords.                                                            *)
C18_ExactlyQualifyingTokens ==
    (mode = "keywords" /\ fpc = "done") =>
        LET g == goal[1]
            Q == Qualifying(g)
        IN /\ Len(keywords) = Cardinality(Q)
           /\ \A r \in Q :
                 keywords[1 + Cardinality({q \in Q : q[1] < r[1]})] = Token(g, r)
           /\ \A i \in 1..Len(keywords) :
                 Len(keywords[i]) >= 3 /\ keywords[i] \notin StopWords
           /\ g = <<>> => keywords = <<>>
C18_Witness ==
    /\ mode = "keywords"
    /\ fpc = "done"
    /\ goal = Some(ExamPrep)
    /\ keywords = <<<<"e","x","a","m">>, <<"p","r","e","p">>>>

(* -------------------- outline claims (outline mode) -------------------- *)
RECURSIVE Offset(_)
Offset(i) == IF i = 1 THEN 0 ELSE Offset(i - 1) + Len(docs[i - 1].page_content) + 2
ConcatLen == IF docs = <<>> THEN 0 ELSE Offset(Len(docs)) + Len(docs[Len(docs)].page_content)
Kept == IF ConcatLen > MaxChars THEN MaxChars ELSE ConcatLen
Clip(n) == IF n > Kept THEN Kept ELSE n
(* the first Kept characters of o are those of the concatenation: segment  *)
(* i occupies the positions after Offset(i), two newlines precede it       *)
PrefixOfConcat(o) ==
    /\ \A i \in 1..Len(docs) :
          LET t == docs[i].page_content
              last == Clip(Offset(i) + Len(t))
          IN SubSeq(o, Offset(i) + 1, last) = SubSeq(t, 1, last - Offset(i))
    /\ \A i \in 2..Len(docs) :
          \A k \in {Offset(i) - 1, Offset(i)} : k <= Kept => o[k] = "\n"
EndsWithNotice(o) ==
    /\ Len(o) >= Len(TruncationNotice)
    /\ \A k \in 1..Len(TruncationNotice) :
          o[Len(o) - Len(TruncationNotice) + k] = TruncationNotice[k]

(* C19: the outline is the segment texts in input order joined by a blank  *)
(* line when that concatenation has at most 12000 characters, otherwise    *)
(* its first 12000 characters followed by the truncation notice; the       *)
(* notice is present exactly when the concatenation exceeded the ceiling,  *)
(* and the outline is never longer than 12000 plus the notice.             *)
C19_JoinThenTruncate ==
    (mode = "outline" /\ fpc = "done") =>
        LET o == outline[1] IN
        /\ ConcatLen <= MaxChars => Len(o) = ConcatLen
        /\ ConcatLen > MaxChars => Len(o) = MaxChars + Len(TruncationNotice)
        /\ PrefixOfConcat(o)
        /\ EndsWithNotice(o) <=> ConcatLen > MaxChars
        /\ Len(o) <= MaxChars + Len(TruncationNotice)
C19_Witness ==
    /\ mode = "outline"
    /\ fpc = "done"
    /\ Len(docs) = 2
    /\ ConcatLen = MaxChars + 1
    /\ Len(outline[1]) = MaxChars + Len(TruncationNotice)
    /\ EndsWithNotice(outline[1])

(* ------------------- placeholder claim (pipeline mode) ----------------- *)
Blank(s) == \A k \in 1..Len(s) : s[k] \in Whitespace

(* C20: when there are no segments or every segment text is empty or       *)
(* whitespace, the outline handed to the generation oracle is the          *)
(* placeholder sentence; the outline the oracle receives is never empty    *)
(* or all whitespace.                                                      *)
C20_PlaceholderWhenBlank ==
    (mode = "pipeline" /\ fpc = "prompt") =>
        /\ (\A i \in 1..Len(docs) : Blank(docs[i].page_content)) =>
              outline = Some(Placeholder)
        /\ outline # None
        /\ ~ Blank(outline[1])

(* ---------------------- plan assembler claims -------------------------- *)
Assembled == structured_plan # None
FinalItems == parse_checklist_text(result[1])

(* C21: the assembled plan's goals are the objectives of the first         *)
(* min(3, n) parsed items in checklist order, empty when no item was       *)
(* parsed; duration_weeks is always 1.                                     *)
C21_GoalsAreFirstObjectives ==
    Assembled =>
        LET p == structured_plan[1]
            n == Len(FinalItems)
        IN /\ Len(p.goals) = IF n < 3 THEN n ELSE 3
           /\ \A i \in 1..Len(p.goals) : p.goals[i] = FinalItems[i].objective
           /\ n = 0 => p.goals = <<>>
           /\ p.duration_weeks = 1
C21_Witness ==
    /\ Assembled
    /\ Len(FinalItems) > 3
    /\ structured_plan[1].goals =
          <<FinalItems[1].objective, FinalItems[2].objective, FinalItems[3].objective>>

(* C22: weekly_breakdown has exactly one block when at least one item was  *)
(* parsed and is empty otherwise; the block's checklist is the full parsed *)
(* item sequence in order and its estimated_minutes is 30 times the item   *)
(* count.                                                                  *)
C22_OneBlockWithAllItems ==
    Assembled =>
        LET wb == structured_plan[1].weekly_breakdown IN
        /\ Len(wb) = IF FinalItems # <<>> THEN 1 ELSE 0
        /\ FinalItems # <<>> =>
              /\ wb[1].checklist = FinalItems
              /\ wb[1].estimated_minutes = 30 * Len(FinalItems)
C22_Witness ==
    /\ Assembled
    /\ Len(FinalItems) > ItemCap
    /\ Len(structured_plan[1].weekly_breakdown) = 1
    /\ structured_plan[1].weekly_breakdown[1].estimated_minutes = 30 * Len(FinalItems)

(* --------------- parser claims (parse mode, by character) -------------- *)
Parsed == mode = "parse" /\ parse_out # None
RECURSIVE LinesFrom(_, _)
LinesFrom(s, p) ==
    IF p > Len(s) + 1 THEN <<>>
    ELSE LET nl == Find(s, p, "\n") IN <<SubSeq(s, p, nl - 1)>> \o LinesFrom(s, nl + 1)
RawLinesOf(s) == LinesFrom(s, 1)
(* item it is what the line alone gives, up to its prompt *)
FromLine(it, line) ==
    LET m == MatchAt(line, 1) IN
    /\ m.ok
    /\ ~ IntRaises(m.digits)
    /\ IntOf(m.digits) = it.number
    /\ m.label = it.label
    /\ m.objective = it.objective
    /\ m.tag = it.tag
    /\ m.stars = it.effort

(* C23: the plan assembler is total: for any final raw text it returns a   *)
(* plan that holds every parsed item (empty goals and weekly_breakdown     *)
(* when nothing was parsed) and it never raises.                           *)
C23_AssemblerTotal ==
    (mode = "parse" /\ plan_out # None) =>
        /\ ~ plan_out[1].raised
        /\ plan_out[1].plan # None
        /\ LET items == parse_out[1].items
               plan == plan_out[1].plan[1]
           IN /\ items = <<>> => plan.goals = <<>> /\ plan.weekly_breakdown = <<>>
              /\ items # <<>> => plan.weekly_breakdown[1].checklist = items

(* C24: rendering a sequence of structurally valid items after the item    *)
(* template and parsing the rendered text gives back the sequence.         *)
C24_RoundTrip ==
    (Parsed /\ items_in # <<>>) =>
        parse_out[1] = [raised |-> FALSE, items |-> items_in]

(* C26: parse_checklist_text never raises; it returns the items of the     *)
(* lines that match the grammar, in order, and a line that does not match  *)
(* contributes no item and alters no field of an item of a matching line.  *)
C26_LenientPerLine ==
    (Parsed /\ items_in = <<>>) =>
        LET items == parse_out[1].items
            lines == RawLinesOf(raw_in)
            matching == {k \in 1..Len(lines) : MatchAt(lines[k], 1).ok}
        IN /\ ~ parse_out[1].raised
           /\ Len(items) = Cardinality(matching)
           /\ \A i \in 1..Len(items) : \E k \in matching : FromLine(items[i], lines[k])

(* C28: every item the parser returns has one of the four tags and an      *)
(* effort of at least 1, so on parser output the per-item checks of the    *)
(* validator fail only for an effort above 5, never for a tag or for an    *)
(* effort below 1.                                                         *)
C28_ParserBoundsTagAndEffort ==
    /\ Parsed =>
          LET items == parse_out[1].items
              errs == ItemErrors(items)
          IN /\ \A i \in 1..Len(items) :
                   /\ items[i].tag \in {"Core", "Practice", "Overview", "Optional"}
                   /\ items[i].effort >= 1
             /\ \A k \in 1..Len(errs) : errs[k] = MsgEffort
             /\ Len(errs) = Cardinality({i \in 1..Len(items) : items[i].effort > MaxEffort})
    /\ (Validated /\ val_out[1].error # None) =>
          /\ \A i \in 1..Len(Items) : Items[i].tag \in ValidTags /\ Items[i].effort >= 1
          /\ \A k \in 1..Len(val_out[1].error[1].text) :
                val_out[1].error[1].text[k] # MsgTag
C28_Witness ==
    /\ Parsed
    /\ Len(parse_out[1].items) = 2
    /\ parse_out[1].items[1].effort > MaxEffort
    /\ ItemErrors(parse_out[1].items) = <<MsgEffort>>
    /\ Len(RawLinesOf(raw_in)) > 2

(* C27: when some segment has non-whitespace text, however short, and the  *)
(* concatenation is within the ceiling, the outline handed to the          *)
(* generation oracle is exactly the concatenation of the segment texts     *)
(* (no goal given, so no segment is filtered out).                         *)
C27_PlaceholderOnlyWhenBlank ==
    (/\ mode = "pipeline"
     /\ fpc = "prompt"
     /\ goal = None
     /\ \E i \in 1..Len(docs) : ~ Blank(docs[i].page_content)
     /\ ConcatLen <= MaxChars) =>
        Len(outline[1]) = ConcatLen /\ PrefixOfConcat(outline[1])

(* C29: a run persists exactly one StudyPlan, with status draft and the    *)
(* plan assembled from the controller's final text, and only after the     *)
(* loop ended in Accept or Exhausted; nothing is persisted when the        *)
(* document is missing or a call raises, or for an intermediate attempt.   *)
C29_PersistedState ==
    /\ Len(db) <= 1
    /\ stage = "done" <=> Len(db) = 1
    /\ db # <<>> =>
          /\ pc \in {"Accept", "Exhausted"}
          /\ raised = "none"
          /\ result # None
          /\ db[1] = [plan |-> _create_structured_plan(result[1]), status |-> "draft"]
    /\ raised # "none" => db = <<>>
    /\ ~ document_exists => db = <<>> /\ genCalls = 0 /\ critCalls = 0
C29_PersistOnceAfterLoop ==
    /\ []C29_PersistedState
    /\ [][db' # db => (stage = "save" /\ pc \in {"Accept", "Exhausted"})]_vars
C29_Witness ==
    /\ stage = "done"
    /\ Len(db) = 1
    /\ pc = "Exhausted"
    /\ genCalls >= 3
    /\ db[1].plan = _create_structured_plan(LastOut)

(* C30: for any sequence of uploads and server restarts each processed     *)
(* upload gets an upload directory no other upload has used, and the file  *)
(* opened for extraction holds the bytes that upload supplied.             *)
C30_FreshDirectoryOwnBytes ==
    \A i \in 1..Len(uploads) :
        /\ \A j \in 1..Len(uploads) : i # j => uploads[i].dir # uploads[j].dir
        /\ uploads[i].opened = uploads[i].supplied

(* ------------------ two invocations (ConcSpec) ------------------------- *)
(* what a frame holds follows from its own generation outputs and budget *)
OwnState(f) ==
    LET own == {Some(f.outs[k]) : k \in 1..Len(f.outs)}
        last == {Some(f.outs[k]) : k \in {Len(f.outs)} \ {0}}
    IN
    /\ f.current_plan_content # None => f.current_plan_content \in last
    /\ f.result # None => f.result \in last
    /\ f.valArg # None => f.valArg \in own
    /\ f.critArg # None => f.critArg \in own
    /\ f.lastGenCall # None => f.lastGenCall[1].raw \in own \cup {None}
    /\ Len(f.outs) <= f.genCalls
    /\ f.genCalls <= 1 + f.max_retries
    /\ f.attempt <= f.max_retries

====
